---- MODULE Spec2Model ----
(***************************************************************************)
(* Model of src/main.js: the arena battle between circles (fast melee),    *)
(* squares (tank melee) and triangles (ranged kiters).                     *)
(*                                                                         *)
(* Units.  Positions are whole pixels, times are centiseconds (0.55 s is   *)
(* 55), speeds are pixels per second.  Unit vectors and weights are fixed  *)
(* point numbers with Scale = 1000 for 1.0.  Every quotient the code       *)
(* computes in floating point is rounded to the nearest integer (RDiv);    *)
(* every comparison of distances is exact, on squared distances.           *)
(*                                                                         *)
(* The frame callback update(timestamp) is one sequential handler; its     *)
(* position is kept in pc/idx so that the states between its phases (and   *)
(* after each takeDamage call) are visible.  No host action is enabled     *)
(* while pc # "idle": JavaScript runs the handler to completion.           *)
(*                                                                         *)
(* Left out: heading (written by Warrior.update, read only by drawWarrior  *)
(* and by its own smoothing), evadeDirection/evadeTimer (never read),      *)
(* hitEffects, the canvas and the audio (written, never read back by the   *)
(* simulation).                                                            *)
(***************************************************************************)
EXTENDS Integers, Sequences, FiniteSets, TLC

\* Frames executed per battle in the model.
MaxFrames == 3

Scale == 10 * 100

\* canvas.width / canvas.height: set by the page, read at lines 38-39.
Canvas == [width |-> 400, height |-> 400]

Min(a, b) == IF a < b THEN a ELSE b
Max(a, b) == IF a > b THEN a ELSE b
Abs(a) == IF a < 0 THEN -a ELSE a

\* a / b of the floating point code, rounded to the nearest integer (b > 0).
RDiv(a, b) == IF a >= 0 THEN (2 * a + b) \div (2 * b) ELSE -((2 * (-a) + b) \div (2 * b))

RECURSIVE SqrtIter(_, _, _)
SqrtIter(n, lo, hi) ==
  IF lo >= hi THEN lo
  ELSE LET mid == (lo + hi + 1) \div 2
       IN IF mid * mid <= n THEN SqrtIter(n, mid, hi) ELSE SqrtIter(n, lo, mid - 1)

\* floor(sqrt(n)).
ISqrt(n) == SqrtIter(n, 0, Min(n, 46340))

\* dx*dx + dy*dy: Math.hypot(dx, dy) squared.
Hypot2(dx, dy) == dx * dx + dy * dy

\* Math.hypot(dx, dy) in tenths of a pixel.
Hypot10(dx, dy) == ISqrt(Hypot2(dx, dy) * 100)

\* (dx / dist, dy / dist) with dist = Math.hypot(dx, dy) || 1, in Scale units.
UnitVec(dx, dy) ==
  IF Hypot2(dx, dy) = 0 THEN <<0, 0>>
  ELSE LET h == Hypot10(dx, dy)
       IN <<RDiv(dx * 10 * Scale, h), RDiv(dy * 10 * Scale, h)>>

CENTER == [x |-> Canvas.width \div 2, y |-> Canvas.height \div 2]
ARENA_RADIUS == Min(Canvas.width, Canvas.height) \div 2 - 40

Types == <<"circle", "square", "triangle">>
TypeSet == {"circle", "square", "triangle"}

TYPE_CONFIG ==
  [circle   |-> [speed |-> 140, hp |-> 55,  damage |-> 9,  range |-> 18, cooldown |-> 55,
                 size |-> 10, preferred |-> [min |-> 0, max |-> 0]],
   square   |-> [speed |-> 91,  hp |-> 130, damage |-> 18, range |-> 22, cooldown |-> 120,
                 size |-> 16, preferred |-> [min |-> 0, max |-> 0]],
   triangle |-> [speed |-> 90,  hp |-> 85,  damage |-> 7,  range |-> 60, cooldown |-> 80,
                 size |-> 14, preferred |-> [min |-> 40, max |-> 55]]]

VARIABLES
  warriors,          \* the roster, in array order
  projectiles,       \* the projectile list, in array order
  running,
  animationFrameId,  \* 0 is null
  pendingFrames,     \* the host's scheduled frame callbacks (ids)
  elapsed,           \* the host's frame clock minus lastTimestamp
  winnerType,        \* "none" is null
  status,            \* the status pill: setup, running, paused, dominate, eliminated
  startBtnDisabled,
  pauseBtnDisabled,
  pc,                \* position inside update(): idle, warriors, projectiles, finish
  idx,               \* index of the next warrior / projectile to update
  delta,             \* update()'s local delta
  frames,            \* steps executed in this battle
  hit,               \* history: the damage dealt by the latest turn of a loop of update()
  seed               \* the locals of seedWarriors while it runs

vars == <<warriors, projectiles, running, animationFrameId, pendingFrames, elapsed,
          winnerType, status, startBtnDisabled, pauseBtnDisabled, pc, idx, delta, frames,
          hit, seed>>

(***************************************************************************)
(* Warrior (lines 92-340)                                                  *)
(***************************************************************************)

\* constructor
NewWarrior(type, x, y) ==
  [type |-> type, x |-> x, y |-> y, hp |-> TYPE_CONFIG[type].hp, cooldown |-> 0,
   alive |-> TRUE, lastHitDirX |-> 0, lastHitDirY |-> 0, wantRetreat |-> 0]

Config(w) == TYPE_CONFIG[w.type]

\* distanceTo, squared
Dist2(a, b) == Hypot2(b.x - a.x, b.y - a.y)

\* The loop of findTarget from candidate j on: closest is an index (0: null),
\* distance the squared distance to it (-1: POSITIVE_INFINITY).
RECURSIVE FindTargetLoop(_, _, _, _, _)
FindTargetLoop(i, ws, j, closest, distance) ==
  IF j > Len(ws) THEN closest
  ELSE IF j = i \/ ~ws[j].alive \/ ws[j].type = ws[i].type
       THEN FindTargetLoop(i, ws, j + 1, closest, distance)
       ELSE LET d == Dist2(ws[i], ws[j])
            IN IF distance < 0 \/ d < distance
               THEN FindTargetLoop(i, ws, j + 1, j, d)
               ELSE FindTargetLoop(i, ws, j + 1, closest, distance)

\* Mutant of findTarget: does not skip dead candidates.
FindTargetDeadToo(i, ws) ==
  LET others == {j \in 1..Len(ws) : j # i /\ ws[j].type # ws[i].type}
  IN IF others = {} THEN 0
     ELSE CHOOSE j \in others :
            \A k \in others :
               \/ Dist2(ws[i], ws[j]) < Dist2(ws[i], ws[k])
               \/ Dist2(ws[i], ws[j]) = Dist2(ws[i], ws[k]) /\ j <= k

\* Mutant of findTarget: d <= distance, the last of several nearest wins.
FindTargetLastOfTies(i, ws) ==
  LET others == {j \in 1..Len(ws) : j # i /\ ws[j].alive /\ ws[j].type # ws[i].type}
  IN IF others = {} THEN 0
     ELSE CHOOSE j \in others :
            \A k \in others :
               \/ Dist2(ws[i], ws[j]) < Dist2(ws[i], ws[k])
               \/ Dist2(ws[i], ws[j]) = Dist2(ws[i], ws[k]) /\ j >= k

\* findTarget: the index of the target of warrior i, 0 when there is none.
FindTarget(i, ws) == FindTargetLoop(i, ws, 1, 0, -1)

\* Mutant of takeDamage: tests the hp before subtracting.
TakeDamageStaleCheck(w, amount) ==
  [w EXCEPT !.hp = w.hp - amount, !.alive = IF w.hp <= 0 THEN FALSE ELSE w.alive]

\* takeDamage (playDeathSound changes no simulation state)
TakeDamage(w, amount) ==
  LET hp == w.hp - amount
  IN [w EXCEPT !.hp = hp, !.alive = IF hp <= 0 THEN FALSE ELSE w.alive]

\* Mutant of clampInsideArena: never clamps.
ClampNever(w) == w

\* clampInsideArena
ClampInsideArena(w) ==
  LET dx == w.x - CENTER.x
      dy == w.y - CENTER.y
      maxDist == ARENA_RADIUS - Config(w).size
  IN IF Hypot2(dx, dy) > maxDist * maxDist
     THEN LET dist10 == Hypot10(dx, dy)
          IN [w EXCEPT !.x = CENTER.x + RDiv(dx * maxDist * 10, dist10),
                       !.y = CENTER.y + RDiv(dy * maxDist * 10, dist10)]
     ELSE w

(***************************************************************************)
(* Projectile (lines 342-394)                                              *)
(***************************************************************************)
ProjectileSpeed == 260
MaxLife == 350
ProjectileRadius == 4

\* Projectile constructor
NewProjectile(owner, target) ==
  LET u == UnitVec(target.x - owner.x, target.y - owner.y)
  IN [ownerType |-> owner.type, damage |-> Config(owner).damage,
      x |-> owner.x, y |-> owner.y,
      vx |-> RDiv(u[1] * ProjectileSpeed, Scale), vy |-> RDiv(u[2] * ProjectileSpeed, Scale),
      life |-> 0, alive |-> TRUE]

\* fireProjectile
FireProjectile(ps, shooter, target) == Append(ps, NewProjectile(shooter, target))

\* Mutant of attemptAttack: no test of the cooldown.
AttemptAttackIgnoresCooldown(i, t, ws, ps) ==
  IF t = 0 \/ ~ws[t].alive
  THEN [warriors |-> ws, projectiles |-> ps]
  ELSE LET self == ws[i]
           target == ws[t]
           minDistance == Config(self).size + Config(target).size
           reach == IF self.type = "triangle" THEN Config(self).range
                    ELSE Max(Config(self).range, minDistance)
       IN IF Dist2(self, target) > reach * reach
          THEN [warriors |-> ws, projectiles |-> ps]
          ELSE IF self.type = "triangle"
               THEN [warriors |-> [ws EXCEPT ![i].cooldown = Config(self).cooldown],
                     projectiles |-> FireProjectile(ps, self, target)]
               ELSE [warriors |-> [ws EXCEPT
                                     ![t] = TakeDamage(target, Config(self).damage),
                                     ![i].cooldown = Config(self).cooldown],
                     projectiles |-> ps]

\* attemptAttack of warrior i on target t (an index, 0: null): the roster and the
\* projectile list after it.
AttemptAttack(i, t, ws, ps) ==
  IF t = 0 \/ ~ws[t].alive \/ ws[i].cooldown > 0
  THEN [warriors |-> ws, projectiles |-> ps]
  ELSE LET self == ws[i]
           target == ws[t]
           distance2 == Dist2(self, target)
       IN IF self.type = "triangle"
          THEN IF distance2 <= Config(self).range * Config(self).range
               THEN [warriors |-> [ws EXCEPT ![i].cooldown = Config(self).cooldown],
                     projectiles |-> FireProjectile(ps, self, target)]
               ELSE [warriors |-> ws, projectiles |-> ps]
          ELSE LET minDistance == Config(self).size + Config(target).size
                   meleeReach == Max(Config(self).range, minDistance)
               IN IF distance2 <= meleeReach * meleeReach
                  THEN LET u == UnitVec(target.x - self.x, target.y - self.y)
                           cooled == [self EXCEPT !.cooldown = Config(self).cooldown]
                           me == IF self.type = "circle"
                                 THEN [cooled EXCEPT
                                         !.lastHitDirX = u[1], !.lastHitDirY = u[2],
                                         !.wantRetreat =
                                            IF target.type = "square" THEN 80 ELSE 40]
                                 ELSE cooled
                       IN [warriors |-> [ws EXCEPT
                                           ![t] = TakeDamage(target, Config(self).damage),
                                           ![i] = me],
                           projectiles |-> ps]
                  ELSE [warriors |-> ws, projectiles |-> ps]

EvadeRadius == 50

\* One threat's share of the evade vector of Warrior.update (lines 240-248 and
\* 254-262): a threat at (px, py) pushes self away with strength
\* (evadeRadius - dist) / evadeRadius, times num / den.
EvadePush(self, px, py, num, den) ==
  LET dx == px - self.x
      dy == py - self.y
      d2 == Hypot2(dx, dy)
  IN IF d2 < EvadeRadius * EvadeRadius /\ d2 > 0
     THEN LET dist10 == Hypot10(dx, dy)
              strength == RDiv((EvadeRadius * 10 - dist10) * Scale, EvadeRadius * 10)
          IN <<-RDiv(dx * 10 * strength * num, dist10 * den),
               -RDiv(dy * 10 * strength * num, dist10 * den)>>
     ELSE <<0, 0>>

\* The loop over everyone (lines 238-249), from index j on.
RECURSIVE EvadeEnemies(_, _, _)
EvadeEnemies(i, ws, j) ==
  IF j > Len(ws) THEN <<0, 0>>
  ELSE LET rest == EvadeEnemies(i, ws, j + 1)
       IN IF ~ws[j].alive \/ ws[j].type = ws[i].type \/ j = i
          THEN rest
          ELSE LET e == EvadePush(ws[i], ws[j].x, ws[j].y, 1, 1)
               IN <<e[1] + rest[1], e[2] + rest[2]>>

\* The loop over projectiles (lines 252-263), from index j on.
RECURSIVE EvadeProjectiles(_, _, _)
EvadeProjectiles(self, ps, j) ==
  IF j > Len(ps) THEN <<0, 0>>
  ELSE LET rest == EvadeProjectiles(self, ps, j + 1)
       IN IF ~ps[j].alive \/ ps[j].ownerType = self.type
          THEN rest
          ELSE LET e == EvadePush(self, ps[j].x, ps[j].y, 3, 2)
               IN <<e[1] + rest[1], e[2] + rest[2]>>

\* shouldMove of Warrior.update (lines 208-225); d2 is the squared distance to
\* the target, with dist = Math.hypot(dx, dy) || 1.
ShouldMove(self, target) ==
  LET d2raw == Dist2(self, target)
      d2 == IF d2raw = 0 THEN 1 ELSE d2raw
      minDistance == Config(self).size + Config(target).size
  IN IF self.type = "triangle"
     THEN \/ d2 * 100 < (Config(self).preferred.min * 14) * (Config(self).preferred.min * 14)
          \/ d2 > Config(self).range * Config(self).range
     ELSE \/ d2 > minDistance * minDistance
          \/ self.type = "circle" /\ self.wantRetreat > 0

\* (vx / m, vy / m) in Scale units; the zero vector has m = 0 and stays zero.
Normalize(vx, vy, m) ==
  IF m = 0 THEN <<0, 0>> ELSE <<RDiv(vx * Scale, m), RDiv(vy * Scale, m)>>

\* A vector divided by its Math.hypot.
Unit(vx, vy) == Normalize(vx, vy, ISqrt(Hypot2(vx, vy)))

\* The evade vector of a triangle (lines 233-263).
EvadeVector(i, ws, ps) ==
  <<EvadeEnemies(i, ws, 1)[1] + EvadeProjectiles(ws[i], ps, 1)[1],
    EvadeEnemies(i, ws, 1)[2] + EvadeProjectiles(ws[i], ps, 1)[2]>>

\* The base movement of a triangle (lines 265-275); u is the unit vector to
\* the target, d2 the squared distance to it.
BaseDir(self, target, u, d2) ==
  IF d2 < Config(self).preferred.min * Config(self).preferred.min
  THEN <<-u[1], -u[2]>>
  ELSE IF d2 <= Config(self).preferred.max * Config(self).preferred.max
          /\ ShouldMove(self, target)
       THEN <<-u[2], u[1]>>
       ELSE u

\* The evasive blend (lines 277-290): 30% base movement, 70% evasion.
KiteDir(base, evade) ==
  IF Abs(evade[1]) * 10 > Scale \/ Abs(evade[2]) * 10 > Scale
  THEN Unit(base[1] * 3 + Unit(evade[1], evade[2])[1] * 7,
            base[2] * 3 + Unit(evade[1], evade[2])[2] * 7)
  ELSE base

\* The stick-and-move direction of a circle (lines 296-310): 60% back, 40% side.
RetreatDir(self) ==
  Unit(-self.lastHitDirX * 6 - self.lastHitDirY * 4,
       -self.lastHitDirY * 6 + self.lastHitDirX * 4)

\* The direction of movement of Warrior.update (lines 227-310), in Scale units.
MoveDir(i, t, ws, ps) ==
  IF ws[i].type = "triangle"
  THEN KiteDir(BaseDir(ws[i], ws[t],
                       UnitVec(ws[t].x - ws[i].x, ws[t].y - ws[i].y),
                       Max(1, Dist2(ws[i], ws[t]))),
               EvadeVector(i, ws, ps))
  ELSE IF ws[i].type = "circle" /\ ws[i].wantRetreat > 0
       THEN RetreatDir(ws[i])
       ELSE UnitVec(ws[t].x - ws[i].x, ws[t].y - ws[i].y)

\* The move of Warrior.update (lines 330-336).
Moved(self, target, dir, dt) ==
  IF ShouldMove(self, target)
  THEN ClampInsideArena(
         [self EXCEPT !.x = @ + RDiv(dir[1] * Config(self).speed * dt, Scale * 100),
                      !.y = @ + RDiv(dir[2] * Config(self).speed * dt, Scale * 100)])
  ELSE self

\* Warrior.update from line 197 on, with target t (an index, 0: null).
ActOnTarget(i, t, dt, ws, ps) ==
  IF t = 0 THEN [warriors |-> ws, projectiles |-> ps]
  ELSE AttemptAttack(i, t,
                     [ws EXCEPT ![i] = Moved(ws[i], ws[t], MoveDir(i, t, ws, ps), dt)],
                     ps)

\* Mutant of Warrior.update: no early return for a dead warrior.
WarriorUpdateDeadActs(i, dt, ws, ps) ==
  ActOnTarget(i, FindTarget(i, ws), dt,
              [ws EXCEPT ![i].cooldown = Max(0, @ - dt),
                         ![i].wantRetreat = IF @ > 0 THEN Max(0, @ - dt) ELSE @],
              ps)

\* Warrior.update(dt, everyone) of warrior i: the roster and the projectile list
\* after it.
WarriorUpdate(i, dt, ws, ps) ==
  IF ~ws[i].alive THEN [warriors |-> ws, projectiles |-> ps]
  ELSE ActOnTarget(i, FindTarget(i, ws), dt,
                   [ws EXCEPT ![i].cooldown = Max(0, @ - dt),
                              ![i].wantRetreat = IF @ > 0 THEN Max(0, @ - dt) ELSE @],
                   ps)

\* Mutant of the collision loop: does not skip the owner's type.
RECURSIVE FirstHitAnyType(_, _, _)
FirstHitAnyType(p, ws, j) ==
  IF j > Len(ws) THEN 0
  ELSE IF ~ws[j].alive
       THEN FirstHitAnyType(p, ws, j + 1)
       ELSE LET reach == Config(ws[j]).size + ProjectileRadius
            IN IF Hypot2(ws[j].x - p.x, ws[j].y - p.y) <= reach * reach
               THEN j
               ELSE FirstHitAnyType(p, ws, j + 1)

\* The collision loop of Projectile.update (lines 376-388) from warrior j on:
\* the index of the first living enemy within reach of p, 0 when there is none.
RECURSIVE FirstHit(_, _, _)
FirstHit(p, ws, j) ==
  IF j > Len(ws) THEN 0
  ELSE IF ~ws[j].alive \/ ws[j].type = p.ownerType
       THEN FirstHit(p, ws, j + 1)
       ELSE LET reach == Config(ws[j]).size + ProjectileRadius
            IN IF Hypot2(ws[j].x - p.x, ws[j].y - p.y) <= reach * reach
               THEN j
               ELSE FirstHit(p, ws, j + 1)

\* Mutant of the collision loop: no break, every living enemy in reach is hit.
ResolveHitPierces(k, p, h, ws, ps) ==
  IF h = 0
  THEN [warriors |-> ws, projectiles |-> [ps EXCEPT ![k] = p]]
  ELSE [warriors |->
          [n \in 1..Len(ws) |->
             IF /\ ws[n].alive /\ ws[n].type # p.ownerType
                /\ Hypot2(ws[n].x - p.x, ws[n].y - p.y)
                      <= (Config(ws[n]).size + ProjectileRadius)
                           * (Config(ws[n]).size + ProjectileRadius)
             THEN TakeDamage(ws[n], p.damage)
             ELSE ws[n]],
        projectiles |-> [ps EXCEPT ![k] = [p EXCEPT !.alive = FALSE]]]

\* Lines 376-388 once the first warrior in reach, h, is known (0: none).
ResolveHit(k, p, h, ws, ps) ==
  IF h = 0
  THEN [warriors |-> ws, projectiles |-> [ps EXCEPT ![k] = p]]
  ELSE [warriors |-> [ws EXCEPT ![h] = TakeDamage(ws[h], p.damage)],
        projectiles |-> [ps EXCEPT ![k] = [p EXCEPT !.alive = FALSE]]]

\* Lines 370-374: a projectile at or beyond the arena circle expires.
ExpireOutside(p) ==
  IF Hypot2(p.x - CENTER.x, p.y - CENTER.y) >= ARENA_RADIUS * ARENA_RADIUS
  THEN [p EXCEPT !.alive = FALSE]
  ELSE p

\* Lines 367-368: straight-line motion.
Fly(p, dt) == [p EXCEPT !.x = @ + RDiv(p.vx * dt, 100), !.y = @ + RDiv(p.vy * dt, 100)]

\* Lines 367-388, for a projectile that has not reached maxLife.
FlyAndCollide(k, p, dt, ws, ps) == ResolveHit(k, p, FirstHit(p, ws, 1), ws, ps)

\* Projectile.update(dt) of projectile k: the roster and the projectile list
\* after it.
ProjectileUpdate(k, dt, ws, ps) ==
  IF ps[k].life + dt >= MaxLife
  THEN [warriors |-> ws,
        projectiles |-> [ps EXCEPT ![k].life = @ + dt, ![k].alive = FALSE]]
  ELSE FlyAndCollide(k, ExpireOutside(Fly([ps[k] EXCEPT !.life = @ + dt], dt)), dt, ws, ps)

(***************************************************************************)
(* Seeding (lines 396-443)                                                 *)
(***************************************************************************)

\* The points randomPoint can return lie within ARENA_RADIUS - 50 of CENTER.
InSpawnDisk(x, y) ==
  Hypot2(x - CENTER.x, y - CENTER.y) <= (ARENA_RADIUS - 50) * (ARENA_RADIUS - 50)

\* The placements seedWarriors is run with: each a roster in the order of
\* Object.keys(TYPE_CONFIG) (circles, squares, triangles), every point one that
\* randomPoint can draw.  A placement closer than minSpacing is what the loop
\* accepts after its last attempt.
Formations ==
  { <<>>,
    <<<<"circle", 195, 200>>, <<"square", 205, 200>>>>,
    <<<<"circle", 200, 200>>, <<"square", 226, 200>>, <<"square", 174, 200>>,
      <<"square", 200, 174>>, <<"square", 200, 226>>>>,
    <<<<"circle", 200, 200>>, <<"triangle", 256, 200>>>>,
    <<<<"circle", 200, 200>>, <<"square", 226, 200>>, <<"square", 174, 200>>,
      <<"square", 200, 174>>, <<"triangle", 200, 230>>>>,
    <<<<"square", 200, 200>>, <<"triangle", 300, 200>>>>,
    <<<<"circle", 150, 150>>, <<"circle", 250, 250>>>>,
    <<<<"circle", 120, 200>>, <<"square", 200, 200>>, <<"triangle", 280, 200>>>>,
    <<<<"square", 230, 200>>, <<"square", 209, 228>>, <<"square", 176, 217>>,
      <<"square", 176, 183>>, <<"square", 209, 172>>, <<"triangle", 200, 200>>>>,
    <<<<"circle", 200, 200>>, <<"triangle", 284, 200>>>>,
    <<<<"circle", 310, 200>>, <<"square", 284, 200>>, <<"triangle", 259, 208>>>> }

\* seedWarriors with the points of placement f
SeedWarriors(f) == [n \in 1..Len(f) |-> NewWarrior(f[n][1], f[n][2], f[n][3])]

(***************************************************************************)
(* The host: frame clock, animation frames, buttons                        *)
(***************************************************************************)

\* How far performance.now(), read in a click handler, can be ahead of the
\* timestamp the next frame callback is given (the frame's begin time).
LagValues == {0, 2}

\* The time between two frames: a regular interval, and the long gap of a tab
\* that was in the background.
TickValues == {20, 120, 350}

\* requestAnimationFrame: a handle that is not in use
NewFrameId == CHOOSE id \in 1..3 : id \notin pendingFrames \cup {animationFrameId}

RequestFrame ==
  /\ animationFrameId' = NewFrameId
  /\ pendingFrames' = pendingFrames \cup {NewFrameId}

\* cancelAnimationFrame(animationFrameId); animationFrameId = null, under
\* if (animationFrameId)
CancelFrame ==
  /\ pendingFrames' = pendingFrames \ {animationFrameId}
  /\ animationFrameId' = 0

\* Mutant of stopAnimation: leaves the pause button enabled.
StopAnimationPauseEnabled ==
  /\ running' = FALSE
  /\ pauseBtnDisabled' = pauseBtnDisabled
  /\ startBtnDisabled' = FALSE
  /\ CancelFrame

\* stopAnimation (its redraw changes no simulation state)
StopAnimation ==
  /\ running' = FALSE
  /\ pauseBtnDisabled' = TRUE
  /\ startBtnDisabled' = FALSE
  /\ CancelFrame

\* updateStats: the alive count of each type
UpdateStats(ws) ==
  [t \in TypeSet |-> Cardinality({n \in 1..Len(ws) : ws[n].alive /\ ws[n].type = t})]

\* Mutant of determineVictor: livingTypes.length < 1.
DetermineVictorNoneOnly(aliveCounts) ==
  LET livingTypes == {t \in TypeSet : aliveCounts[t] > 0}
  IN IF Cardinality(livingTypes) < 1
     THEN [over |-> TRUE, status |-> "eliminated", winnerType |-> "none"]
     ELSE [over |-> FALSE, status |-> status, winnerType |-> winnerType]

\* Mutant of determineVictor: livingTypes.length === 1, an empty arena goes on.
DetermineVictorNeedsSurvivor(aliveCounts) ==
  LET livingTypes == {t \in TypeSet : aliveCounts[t] > 0}
  IN IF Cardinality(livingTypes) = 1
     THEN [over |-> TRUE, status |-> "dominate",
           winnerType |-> CHOOSE t \in livingTypes : TRUE]
     ELSE [over |-> FALSE, status |-> status, winnerType |-> winnerType]

\* determineVictor: whether the battle is over, and the status and winnerType
\* it sets then
DetermineVictor(aliveCounts) ==
  LET livingTypes == {t \in TypeSet : aliveCounts[t] > 0}
  IN IF Cardinality(livingTypes) <= 1
     THEN IF livingTypes = {}
          THEN [over |-> TRUE, status |-> "eliminated", winnerType |-> "none"]
          ELSE [over |-> TRUE, status |-> "dominate",
                winnerType |-> CHOOSE t \in livingTypes : TRUE]
     ELSE [over |-> FALSE, status |-> status, winnerType |-> winnerType]

\* Mutant of the order of update(): projectiles first, then the roster.
PhaseAfterSwapped(p, ws, ps) ==
  CASE p = "idle" /\ ps # <<>> -> "projectiles"
    [] p \in {"idle", "projectiles"} /\ ws # <<>> -> "warriors"
    [] OTHER -> "finish"

\* The order of the phases of update() (lines 712-731): the phase that follows
\* phase p when the roster is ws and the projectile list ps.
PhaseAfter(p, ws, ps) ==
  CASE p = "idle" /\ ws # <<>> -> "warriors"
    [] p \in {"idle", "warriors"} /\ ps # <<>> -> "projectiles"
    [] OTHER -> "finish"

\* No damage dealt.
NoHit == [by |-> "none", who |-> 0, wasAlive |-> FALSE]

\* What a turn that took the roster from ws to ws2 in phase p did to the hp.
HitOf(p, ws, ws2) ==
  LET lower == {n \in 1..Len(ws) : ws2[n].hp < ws[n].hp}
  IN IF lower = {} THEN NoHit
     ELSE LET n == CHOOSE m \in lower : TRUE
          IN [by |-> p, who |-> n, wasAlive |-> ws[n].alive]

\* seedWarriors is not running.
NoSeed == [phase |-> "off", form |-> [t \in TypeSet |-> 0], multiplier |-> 1,
           counts |-> [t \in TypeSet |-> 0], type |-> 0, i |-> 0,
           attempts |-> 0, point |-> <<0, 0>>]

Init ==
  /\ warriors = <<>>
  /\ projectiles = <<>>
  /\ running = FALSE
  /\ animationFrameId = 0
  /\ pendingFrames = {}
  /\ elapsed = 0
  /\ winnerType = "none"
  /\ status = "setup"
  /\ startBtnDisabled = FALSE
  /\ pauseBtnDisabled = TRUE
  /\ pc = "idle"
  /\ idx = 0
  /\ delta = 0
  /\ frames = 0
  /\ hit = NoHit
  /\ seed = NoSeed

\* startBattle, on a click of the start button, seeding placement f
StartBattle(f, lag) ==
  /\ pc = "idle"
  /\ ~startBtnDisabled
  /\ warriors' = SeedWarriors(f)
  /\ projectiles' = <<>>
  /\ elapsed' = -lag
  /\ running' = TRUE
  /\ RequestFrame
  /\ startBtnDisabled' = TRUE
  /\ pauseBtnDisabled' = FALSE
  /\ status' = "running"
  /\ frames' = 0
  /\ UNCHANGED <<winnerType, pc, idx, delta, hit>>
  /\ UNCHANGED seed

\* Time passes between frames.
Tick(d) ==
  /\ pc = "idle"
  /\ elapsed <= 0
  /\ elapsed' = elapsed + d
  /\ UNCHANGED <<warriors, projectiles, running, animationFrameId, pendingFrames,
                 winnerType, status, startBtnDisabled, pauseBtnDisabled, pc, idx, delta,
                 frames, hit>>
  /\ UNCHANGED seed

\* update(timestamp), lines 705-710: the host runs a scheduled frame callback
Frame ==
  /\ pc = "idle"
  /\ frames < MaxFrames
  /\ \E id \in pendingFrames :
       /\ IF running
          THEN /\ delta' = elapsed
               /\ elapsed' = 0
               /\ pc' = PhaseAfter("idle", warriors, projectiles)
               /\ idx' = 1
               /\ frames' = frames + 1
               /\ pendingFrames' = pendingFrames \ {id}
          ELSE /\ pendingFrames' = pendingFrames \ {id}
               /\ UNCHANGED <<delta, elapsed, pc, idx, frames>>
  /\ UNCHANGED <<warriors, projectiles, running, animationFrameId, winnerType, status,
                 startBtnDisabled, pauseBtnDisabled, hit>>
  /\ UNCHANGED seed

\* The roster and the projectile list become those of r.
Apply(r) == warriors' = r.warriors /\ projectiles' = r.projectiles

\* update(), lines 712-714: one turn of the loop over the roster
UpdateWarrior ==
  /\ pc = "warriors"
  /\ Apply(WarriorUpdate(idx, delta, warriors, projectiles))
  /\ IF idx < Len(warriors)
     THEN idx' = idx + 1 /\ pc' = pc
     ELSE idx' = 1 /\ pc' = PhaseAfter("warriors", warriors', projectiles')
  /\ hit' = HitOf(pc, warriors, warriors')
  /\ UNCHANGED <<running, animationFrameId, pendingFrames, elapsed, winnerType, status,
                 startBtnDisabled, pauseBtnDisabled, delta, frames>>
  /\ UNCHANGED seed

\* Mutant of the loop of line 715: each projectile is updated twice.
UpdateProjectileTwice ==
  /\ pc = "projectiles"
  /\ Apply(ProjectileUpdate(idx, delta,
                            ProjectileUpdate(idx, delta, warriors, projectiles).warriors,
                            ProjectileUpdate(idx, delta, warriors, projectiles).projectiles))
  /\ IF idx < Len(projectiles)
     THEN idx' = idx + 1 /\ pc' = pc
     ELSE idx' = 1 /\ pc' = PhaseAfter("projectiles", warriors', projectiles')
  /\ hit' = HitOf(pc, warriors, warriors')
  /\ UNCHANGED <<running, animationFrameId, pendingFrames, elapsed, winnerType, status,
                 startBtnDisabled, pauseBtnDisabled, delta, frames>>
  /\ UNCHANGED seed

\* update(), line 715: one turn of projectiles.forEach
UpdateProjectile ==
  /\ pc = "projectiles"
  /\ Apply(ProjectileUpdate(idx, delta, warriors, projectiles))
  /\ IF idx < Len(projectiles)
     THEN idx' = idx + 1 /\ pc' = pc
     ELSE idx' = 1 /\ pc' = PhaseAfter("projectiles", warriors', projectiles')
  /\ hit' = HitOf(pc, warriors, warriors')
  /\ UNCHANGED <<running, animationFrameId, pendingFrames, elapsed, winnerType, status,
                 startBtnDisabled, pauseBtnDisabled, delta, frames>>
  /\ UNCHANGED seed

\* update(), lines 716-733: prune, count, decide, stop or schedule the next frame
FrameEnd ==
  /\ pc = "finish"
  /\ projectiles' = SelectSeq(projectiles, LAMBDA p : p.alive)
  /\ warriors' = SelectSeq(warriors, LAMBDA w : w.alive)
  /\ LET v == DetermineVictor(UpdateStats(warriors'))
     IN /\ status' = v.status
        /\ winnerType' = v.winnerType
        /\ IF v.over
           THEN StopAnimation
           ELSE /\ RequestFrame
                /\ UNCHANGED <<running, startBtnDisabled, pauseBtnDisabled>>
  /\ pc' = "idle"
  /\ idx' = 0
  /\ delta' = 0
  /\ hit' = NoHit
  /\ UNCHANGED <<elapsed, frames>>
  /\ UNCHANGED seed

\* Mutant of togglePause: resuming leaves lastTimestamp as it was.
TogglePauseKeepsClock(lag) ==
  /\ pc = "idle"
  /\ ~pauseBtnDisabled
  /\ IF ~running /\ animationFrameId = 0 /\ Len(warriors) = 0
     THEN UNCHANGED <<running, status, animationFrameId, pendingFrames, elapsed>>
     ELSE IF running
          THEN /\ running' = FALSE
               /\ status' = "paused"
               /\ CancelFrame
               /\ UNCHANGED elapsed
          ELSE /\ running' = TRUE
               /\ UNCHANGED elapsed
               /\ RequestFrame
               /\ status' = "running"
  /\ UNCHANGED <<warriors, projectiles, winnerType, startBtnDisabled, pauseBtnDisabled,
                 pc, idx, delta, frames, hit>>
  /\ UNCHANGED seed

\* togglePause, on a click of the pause button
TogglePause(lag) ==
  /\ pc = "idle"
  /\ ~pauseBtnDisabled
  /\ IF ~running /\ animationFrameId = 0 /\ Len(warriors) = 0
     THEN UNCHANGED <<running, status, animationFrameId, pendingFrames, elapsed>>
     ELSE IF running
          THEN /\ running' = FALSE
               /\ status' = "paused"
               /\ CancelFrame
               /\ UNCHANGED elapsed
          ELSE /\ running' = TRUE
               /\ elapsed' = -lag
               /\ RequestFrame
               /\ status' = "running"
  /\ UNCHANGED <<warriors, projectiles, winnerType, startBtnDisabled, pauseBtnDisabled,
                 pc, idx, delta, frames, hit>>
  /\ UNCHANGED seed

\* resetArena, on a click of the reset button
ResetArena ==
  /\ pc = "idle"
  /\ StopAnimation
  /\ warriors' = <<>>
  /\ projectiles' = <<>>
  /\ winnerType' = "none"
  /\ status' = "setup"
  /\ UNCHANGED <<elapsed, pc, idx, delta, frames, hit>>
  /\ UNCHANGED seed

Next ==
  \/ \E f \in Formations, lag \in LagValues : StartBattle(f, lag)
  \/ \E d \in TickValues : Tick(d)
  \/ Frame
  \/ UpdateWarrior
  \/ UpdateProjectile
  \/ FrameEnd
  \/ \E lag \in LagValues : TogglePause(lag)
  \/ ResetArena

Spec == Init /\ [][Next]_vars

\* A battle in progress: the duel of a circle and a square 10 pixels apart, the
\* circle down to hp 1, the square down to hp 1 or untouched, no projectile left,
\* the next frame scheduled.
DuelInit ==
  /\ \E h \in {1, TYPE_CONFIG.square.hp} :
        warriors = <<[NewWarrior("circle", 195, 200) EXCEPT !.hp = 1],
                     [NewWarrior("square", 205, 200) EXCEPT !.hp = h]>>
  /\ projectiles = <<>>
  /\ running = TRUE
  /\ animationFrameId = 1
  /\ pendingFrames = {1}
  /\ elapsed \in {-l : l \in LagValues}
  /\ winnerType = "none"
  /\ status = "running"
  /\ startBtnDisabled = TRUE
  /\ pauseBtnDisabled = FALSE
  /\ pc = "idle"
  /\ idx = 0
  /\ delta = 0
  /\ frames = 0
  /\ hit = NoHit
  /\ seed = NoSeed

DuelSpec == DuelInit /\ [][Next]_vars

\* update(), lines 716-723, when a drawing call (clearArena, drawProjectiles,
\* drawWarrior, drawHitEffects) throws: the lists are pruned (lines 716-717),
\* then the exception leaves the handler, so lines 725-733 do not run: no
\* updateStats, no determineVictor, no requestAnimationFrame.
FrameEndRenderThrows ==
  /\ pc = "finish"
  /\ projectiles' = SelectSeq(projectiles, LAMBDA p : p.alive)
  /\ warriors' = SelectSeq(warriors, LAMBDA w : w.alive)
  /\ pc' = "idle"
  /\ idx' = 0
  /\ delta' = 0
  /\ hit' = NoHit
  /\ UNCHANGED <<running, animationFrameId, pendingFrames, elapsed, winnerType, status,
                 startBtnDisabled, pauseBtnDisabled, frames>>
  /\ UNCHANGED seed

\* The program with a canvas whose drawing calls may throw.
FaultNext == Next \/ FrameEndRenderThrows

FaultSpec == Init /\ [][FaultNext]_vars

(***************************************************************************)
(* seedWarriors, statement by statement (lines 416-432)                    *)
(***************************************************************************)

\* Units requested in one start, over the three types.
MaxUnits == 3

MinSpacing == 25
MaxAttempts == 100

\* What the form holds for one type, and the values of the multiplier input.
FormValues == {-1, 0, 1}
Multipliers == {1, 2}

\* collectCounts (lines 434-443): whole numbers only, which Math.round keeps
CollectCounts(form, multiplier) == [t \in TypeSet |-> Max(0, form[t] * multiplier)]

\* The points randomPoint is taken to return: two of them closer to each other
\* than minSpacing, the third far from both.
CandidatePoints == {<<200, 200>>, <<210, 200>>, <<260, 200>>}

\* isPositionValid(x, y, existingWarriors, minDistance)
IsPositionValid(x, y, existingWarriors, minDistance) ==
  \A n \in 1..Len(existingWarriors) :
     Hypot2(existingWarriors[n].x - x, existingWarriors[n].y - y)
        >= minDistance * minDistance

\* Mutant of the condition of the do-while: no cap on the attempts.
DrawAgainUncapped(point, attempts, ws) ==
  ~IsPositionValid(point[1], point[2], ws, MinSpacing)

\* The condition of the do-while (line 427).
DrawAgain(point, attempts, ws) ==
  ~IsPositionValid(point[1], point[2], ws, MinSpacing) /\ attempts < MaxAttempts

\* const amount = counts[type] ?? 0, for the type the outer loop is at
Amount == IF seed.type \in 1..3 THEN seed.counts[Types[seed.type]] ELSE 0

\* startBattle up to the entry of seedWarriors' loops (lines 755, 417-420), for
\* what the form and the multiplier input hold
SeedStart(form, multiplier) ==
  /\ pc = "idle"
  /\ ~startBtnDisabled
  /\ seed.phase = "off"
  /\ CollectCounts(form, multiplier).circle + CollectCounts(form, multiplier).square
        + CollectCounts(form, multiplier).triangle <= MaxUnits
  /\ warriors' = <<>>
  /\ projectiles' = <<>>
  /\ seed' = [phase |-> "loop", form |-> form, multiplier |-> multiplier,
              counts |-> CollectCounts(form, multiplier), type |-> 1, i |-> 0,
              attempts |-> 0, point |-> <<0, 0>>]
  /\ UNCHANGED <<running, animationFrameId, pendingFrames, elapsed, winnerType, status,
                 startBtnDisabled, pauseBtnDisabled, pc, idx, delta, frames, hit>>

\* One pass of the do-while body (lines 425-426): a candidate p is drawn.
SeedDraw(p) ==
  /\ seed.phase = "loop" /\ seed.type <= 3 /\ seed.i < Amount
  /\ seed.attempts = 0 \/ DrawAgain(seed.point, seed.attempts, warriors)
  /\ seed' = [seed EXCEPT !.point = p, !.attempts = @ + 1]
  /\ UNCHANGED <<warriors, projectiles, running, animationFrameId, pendingFrames, elapsed,
                 winnerType, status, startBtnDisabled, pauseBtnDisabled, pc, idx, delta,
                 frames, hit>>

\* The do-while is left: warriors.push(new Warrior(type, point.x, point.y)), i += 1
SeedPlace ==
  /\ seed.phase = "loop" /\ seed.type <= 3 /\ seed.i < Amount
  /\ seed.attempts > 0 /\ ~DrawAgain(seed.point, seed.attempts, warriors)
  /\ warriors' = Append(warriors,
                        NewWarrior(Types[seed.type], seed.point[1], seed.point[2]))
  /\ seed' = [seed EXCEPT !.i = @ + 1, !.attempts = 0]
  /\ UNCHANGED <<projectiles, running, animationFrameId, pendingFrames, elapsed,
                 winnerType, status, startBtnDisabled, pauseBtnDisabled, pc, idx, delta,
                 frames, hit>>

\* i < amount fails: the outer loop goes to the next type
SeedNextType ==
  /\ seed.phase = "loop" /\ seed.type <= 3 /\ ~(seed.i < Amount)
  /\ seed' = [seed EXCEPT !.type = @ + 1, !.i = 0]
  /\ UNCHANGED <<warriors, projectiles, running, animationFrameId, pendingFrames, elapsed,
                 winnerType, status, startBtnDisabled, pauseBtnDisabled, pc, idx, delta,
                 frames, hit>>

\* seedWarriors returns; startBattle goes on (lines 757-767)
SeedFinish ==
  /\ seed.phase = "loop" /\ seed.type > 3
  /\ seed' = [seed EXCEPT !.phase = "off", !.type = 0, !.i = 0, !.attempts = 0,
                          !.point = <<0, 0>>]
  /\ \E lag \in LagValues : elapsed' = -lag
  /\ running' = TRUE
  /\ RequestFrame
  /\ startBtnDisabled' = TRUE
  /\ pauseBtnDisabled' = FALSE
  /\ status' = "running"
  /\ frames' = 0
  /\ UNCHANGED <<warriors, projectiles, winnerType, pc, idx, delta, hit>>

\* A statement of startBattle with seedWarriors.
SeedStep ==
  \/ \E p \in CandidatePoints : SeedDraw(p)
  \/ SeedPlace
  \/ SeedNextType
  \/ SeedFinish

SeedNext ==
  \/ \E form \in [TypeSet -> FormValues], multiplier \in Multipliers :
        SeedStart(form, multiplier)
  \/ SeedStep
  \/ seed.phase = "off" /\ ResetArena

\* The start button and the reset button only; a handler runs to its end.
SeedSpec == Init /\ [][SeedNext]_vars /\ WF_vars(SeedStep)

(***************************************************************************)
(* Properties                                                              *)
(***************************************************************************)

Roster == 1..Len(warriors)
Shots == 1..Len(projectiles)
InStep == pc \in {"warriors", "projectiles", "finish"}
Terminal == status \in {"dominate", "eliminated"}
FromCenter2(o) == Hypot2(o.x - CENTER.x, o.y - CENTER.y)
LivingTypes(ws) == {ws[n].type : n \in {m \in 1..Len(ws) : ws[m].alive}}

\* C1: in every state, also between the phases of a step and right after each
\* takeDamage, every entity of the roster is alive exactly when its hp is
\* positive.
C1_AliveIffHpPositive == \A n \in Roster : warriors[n].alive <=> warriors[n].hp > 0

\* C1 witness: an entity that takeDamage has just killed is still in the roster.
C1_Witness == \E n \in Roster : ~warriors[n].alive /\ warriors[n].hp <= 0

\* C2: a projectile update never lowers the hp of an entity whose type is the
\* projectile's ownerType.
C2_NoFriendlyFire ==
  [][pc = "projectiles" =>
       \A n \in Roster :
          warriors[n].type = projectiles[idx].ownerType =>
             warriors'[n].hp = warriors[n].hp]_vars

\* C2 witness: a projectile has been updated while it lay within reach of a
\* living entity of its owner's type, which has lost no hp.
C2_Witness ==
  /\ pc \in {"projectiles", "finish"}
  /\ \E k \in Shots, n \in Roster :
        /\ pc = "projectiles" => k < idx
        /\ warriors[n].alive
        /\ warriors[n].type = projectiles[k].ownerType
        /\ warriors[n].hp = Config(warriors[n]).hp
        /\ Hypot2(warriors[n].x - projectiles[k].x, warriors[n].y - projectiles[k].y)
             <= (Config(warriors[n]).size + ProjectileRadius)
                  * (Config(warriors[n]).size + ProjectileRadius)

\* C3: once the outcome is terminal, the roster (with every hp), the projectile
\* list, the winner and the status change only by a start or a reset.
C3_TerminalIsFinal ==
  [][(pc = "idle" /\ Terminal) =>
       \/ UNCHANGED <<warriors, projectiles, winnerType, status>>
       \/ \E f \in Formations, lag \in LagValues : StartBattle(f, lag)
       \/ ResetArena]_vars

\* C3 witness: a battle has ended in a victory, the survivors are in the roster
\* and time has passed since.
C3_Witness ==
  /\ pc = "idle" /\ status = "dominate" /\ ~running /\ elapsed > 0
  /\ \E n \in Roster : warriors[n].cooldown > 0

\* C4: the last phase of a step prunes the dead and then decides: the outcome
\* is terminal exactly when at most one type has a living entity; victory of
\* that type when there is one, draw when there is none.
C4_OutcomeAtStepEnd ==
  [][pc = "finish" =>
       /\ \A n \in 1..Len(warriors') : warriors'[n].alive
       /\ LivingTypes(warriors') = LivingTypes(warriors)
       /\ (status' \in {"dominate", "eliminated"}) <=> Cardinality(LivingTypes(warriors)) <= 1
       /\ Cardinality(LivingTypes(warriors)) <= 1 => ~running' /\ pendingFrames' = {}
       /\ Cardinality(LivingTypes(warriors)) > 1 => running' /\ pendingFrames' # {}
       /\ \A t \in TypeSet :
             LivingTypes(warriors) = {t} => status' = "dominate" /\ winnerType' = t
       /\ LivingTypes(warriors) = {} => status' = "eliminated" /\ winnerType' = "none"]_vars

\* C4 witness: a step in which an entity died has ended in a victory.
C4_Witness ==
  /\ pc = "idle" /\ status = "dominate" /\ frames > 0
  /\ warriors # <<>> /\ \A n \in Roster : warriors[n].type = winnerType

\* C5: at the end of every step every entity of the roster and every projectile
\* of the list is within ARENA_RADIUS of CENTER.
C5_InsideArena ==
  pc = "idle" =>
    /\ \A n \in Roster : FromCenter2(warriors[n]) <= ARENA_RADIUS * ARENA_RADIUS
    /\ \A k \in Shots : FromCenter2(projectiles[k]) <= ARENA_RADIUS * ARENA_RADIUS

\* C5 witness: after a step, an entity stands on the circle clampInsideArena
\* puts it back on, and a projectile is in flight.
C5_Witness ==
  /\ pc = "idle" /\ frames > 0 /\ projectiles # <<>>
  /\ \E n \in Roster :
        FromCenter2(warriors[n])
          >= (ARENA_RADIUS - Config(warriors[n]).size - 1)
               * (ARENA_RADIUS - Config(warriors[n]).size - 1)

\* The step property of C6.
DeadIsInertStep ==
  pc \in {"warriors", "projectiles"} =>
       /\ \A n \in Roster : ~warriors[n].alive => warriors'[n] = warriors[n]
       /\ (pc = "warriors" /\ ~warriors[idx].alive) =>
             UNCHANGED <<warriors, projectiles>>
       /\ \A n \in Roster :
             FindTarget(n, warriors) # 0 => warriors[FindTarget(n, warriors)].alive

\* C6: an entity whose alive flag is false is inert until it is pruned: no turn
\* of the step changes it (it is not moved, not hit, not revived), its own turn
\* changes nothing at all (no attack, no projectile), and findTarget returns it
\* to nobody.
C6_DeadIsInert == [][DeadIsInertStep]_vars

\* C6 witness: the turn of an entity that died earlier in the step has come, and
\* a living enemy of it is in the roster.
C6_Witness ==
  /\ pc = "warriors"
  /\ ~warriors[idx].alive
  /\ \E n \in Roster : warriors[n].alive /\ warriors[n].type # warriors[idx].type

\* The step property of C7.
PhaseOrderStep ==
     /\ (pc = "idle" /\ pc' # "idle") =>
          /\ idx' = 1
          /\ pc' = "projectiles" => warriors = <<>>
          /\ pc' = "finish" => warriors = <<>> /\ projectiles = <<>>
     /\ pc = "warriors" =>
          /\ pc' \in {"warriors", "projectiles", "finish"}
          /\ pc' # "warriors" => idx = Len(warriors)
          /\ pc' = "finish" => projectiles' = <<>>
          /\ SubSeq(projectiles', 1, Len(projectiles)) = projectiles
     /\ pc = "projectiles" =>
          /\ pc' \in {"projectiles", "finish"}
          /\ pc' = "finish" => idx = Len(projectiles)
          /\ Len(projectiles') = Len(projectiles)
          /\ \A n \in Roster :
                /\ [warriors'[n] EXCEPT !.hp = warriors[n].hp, !.alive = warriors[n].alive]
                     = warriors[n]
                /\ warriors'[n].hp < warriors[n].hp => warriors[n].alive
     /\ pc \in {"warriors", "projectiles"} =>
          /\ Len(warriors') = Len(warriors)
          /\ UNCHANGED <<status, winnerType, running, pendingFrames>>
     /\ pc = "finish" => pc' = "idle"

\* C7: a step runs its phases in order: every entity's turn, then every
\* projectile's turn, then the pruning with the decision.  No projectile is
\* updated during the entities' turns; during the projectiles' turns no entity
\* moves, attacks or fires, and only an entity that is alive at that moment
\* loses hp; the outcome is not touched before the last phase.
C7_PhaseOrder == [][PhaseOrderStep]_vars

\* C7 witness: a projectile has just killed an entity, which is still in the
\* roster.
C7_Witness ==
  /\ hit.by = "projectiles"
  /\ hit.wasAlive
  /\ ~warriors[hit.who].alive

\* A roster of melee entities only, with no projectile left.
MeleeOnly ==
  /\ warriors # <<>>
  /\ projectiles = <<>>
  /\ \A n \in Roster : warriors[n].type # "triangle"

\* The duel of the spec: circle and square, hp 1 each, 10 pixels apart, both
\* ready to attack, at the start of the circle's turn.
DuelAtFirstTurn ==
  /\ pc = "warriors" /\ idx = 1 /\ Len(warriors) = 2 /\ projectiles = <<>>
  /\ warriors[1].type = "circle" /\ warriors[2].type = "square"
  /\ \A n \in Roster : warriors[n].alive /\ warriors[n].hp = 1
  /\ Dist2(warriors[1], warriors[2]) = 10 * 10
  /\ \A n \in Roster : warriors[n].cooldown - delta <= 0

\* The step property of C8.
MeleeNeverDrawsStep ==
     /\ (InStep /\ MeleeOnly) =>
          /\ \E n \in Roster : warriors[n].alive
          /\ pc = "finish" => warriors' # <<>> /\ status' # "eliminated"
     /\ DuelAtFirstTurn =>
          warriors'[1].alive /\ ~warriors'[2].alive /\ warriors'[1].hp = 1

\* C8: in a step on a roster of melee entities only, somebody is alive at every
\* moment, and the step does not end in a draw; in the duel with hp 1 each, the
\* first turn of a step in which both are ready kills the square and leaves the
\* circle alive.
C8_MeleeNeverDraws == [][MeleeNeverDrawsStep]_vars

\* C8 witness: the duel with hp 1 each has ended with the circle as the one
\* survivor and the winner.
C8_Witness ==
  /\ pc = "idle" /\ status = "dominate" /\ winnerType = "circle"
  /\ Len(warriors) = 1 /\ warriors[1].type = "circle" /\ warriors[1].hp = 1
  /\ frames = 1

\* C9 as claimed: every hp is within [0, maxHp] in every state.
C9_HpWithinBounds ==
  \A n \in Roster : warriors[n].hp >= 0 /\ warriors[n].hp <= Config(warriors[n]).hp

\* The step property of C10.
NoEffectWhenDtNotPositiveStep ==
  (pc \in {"warriors", "projectiles"} /\ delta <= 0) =>
       /\ \A n \in Roster :
             /\ warriors'[n].x = warriors[n].x /\ warriors'[n].y = warriors[n].y
             /\ \/ warriors'[n].cooldown <= warriors[n].cooldown
                \/ warriors'[n].cooldown = Config(warriors[n]).cooldown
       /\ \A k \in Shots :
             /\ projectiles'[k].x = projectiles[k].x /\ projectiles'[k].y = projectiles[k].y
             /\ projectiles'[k].life >= projectiles[k].life

\* C10 as claimed: in a step whose delta is zero or negative no entity and no
\* projectile changes position, no cooldown grows except by an attack's reset,
\* and no projectile gets younger.
C10_NoEffectWhenDtNotPositive == [][NoEffectWhenDtNotPositiveStep]_vars

\* The step property of C11.
TickSurvivesFailureStep ==
  pc = "finish" =>
     /\ status' = DetermineVictor(UpdateStats(warriors')).status
     /\ winnerType' = DetermineVictor(UpdateStats(warriors')).winnerType
     /\ running' = ~DetermineVictor(UpdateStats(warriors')).over
     /\ running' => animationFrameId' \in pendingFrames'

\* C11 as claimed: whatever a renderer or audio collaborator does, the last
\* phase of a step evaluates the outcome on the pruned roster, and a battle that
\* goes on has its next frame scheduled.
C11_TickSurvivesFailure == [][TickSurvivesFailureStep]_vars

\* The step property of C12.
RestartIsCleanStep ==
  \A f \in Formations :
     (\E lag \in LagValues : StartBattle(f, lag)) =>
        /\ Len(warriors') = Len(f)
        /\ \A n \in 1..Len(f) :
              /\ warriors'[n].type = f[n][1]
              /\ warriors'[n].alive
              /\ warriors'[n].hp = TYPE_CONFIG[f[n][1]].hp
              /\ warriors'[n].cooldown = 0
        /\ projectiles' = <<>>
        /\ running' /\ status' = "running"
        /\ winnerType' = "none"

\* C12 as claimed: a start, from any state, leaves exactly the seeded entities,
\* each alive with full hp and cooldown 0, no projectile, a running battle and
\* no victor recorded.
C12_RestartIsClean == [][RestartIsCleanStep]_vars

\* The step property of C13.
EmptyStartDrawsStep ==
  (pc = "finish" /\ frames = 1 /\ warriors = <<>>) =>
     /\ status' = "eliminated"
     /\ winnerType' = "none"
     /\ \A t \in TypeSet : UpdateStats(warriors')[t] = 0
     /\ ~running'
     /\ pendingFrames' = {}

\* C13: the first step of a battle started with an empty roster ends with the
\* draw (status "All units eliminated", no winner), all alive counts zero, and
\* the battle stopped with no frame scheduled.
C13_EmptyStartDraws == [][EmptyStartDrawsStep]_vars

\* C13 witness: an empty battle has ended in the draw after its first step.
C13_Witness ==
  /\ pc = "idle" /\ frames = 1 /\ status = "eliminated" /\ ~running
  /\ warriors = <<>> /\ winnerType = "none"

\* The living entities of another type than warrior i.
Enemies(i) == {j \in Roster : j # i /\ warriors[j].alive /\ warriors[j].type # warriors[i].type}

\* Warrior i is a living triangle whose turn it is, in a step with dt > 0, with
\* one enemy only, d pixels away, and no enemy projectile within the evade radius.
KiterFacing(i, d) ==
  /\ pc = "warriors" /\ idx = i /\ delta > 0
  /\ warriors[i].type = "triangle" /\ warriors[i].alive
  /\ Cardinality(Enemies(i)) = 1
  /\ \A j \in Enemies(i) : Dist2(warriors[i], warriors[j]) = d * d
  /\ \A k \in Shots :
        (projectiles[k].alive /\ projectiles[k].ownerType # "triangle") =>
           Hypot2(projectiles[k].x - warriors[i].x, projectiles[k].y - warriors[i].y)
              >= EvadeRadius * EvadeRadius

\* The step property of C14.
KiterApproachesStep ==
  \A i \in Roster :
     KiterFacing(i, TYPE_CONFIG.triangle.preferred.max + 1) =>
        /\ <<warriors'[i].x, warriors'[i].y>> # <<warriors[i].x, warriors[i].y>>
        /\ \A j \in Enemies(i) :
              Dist2(warriors'[i], warriors[j]) < Dist2(warriors[i], warriors[j])

\* C14 as claimed: a triangle whose only enemy is exactly preferred.max + 1
\* pixels away, with no threat within the evade radius, moves in its turn of a
\* step with dt > 0, and ends the turn closer to where the enemy stands.
C14_KiterApproaches == [][KiterApproachesStep]_vars

\* The turn of update() that is about to run has dealt damage or fired.
Attacked ==
  \/ \E n \in Roster : warriors'[n].hp < warriors[n].hp
  \/ Len(projectiles') > Len(projectiles)

\* The living enemy the warrior of this turn would find within its reach.
InReach(i) ==
  LET t == FindTarget(i, warriors)
      reach == IF warriors[i].type = "triangle" THEN Config(warriors[i]).range
               ELSE Max(Config(warriors[i]).range,
                        Config(warriors[i]).size + Config(warriors[t]).size)
  IN t # 0 /\ Dist2(warriors[i], warriors[t]) <= reach * reach

\* The step property of C15.
AttackNeedsCooldownStep ==
  /\ \A i \in Roster : \A t \in 0..Len(warriors) :
        (t = 0 \/ ~warriors[t].alive \/ warriors[i].cooldown > 0) =>
           AttemptAttack(i, t, warriors, projectiles)
              = [warriors |-> warriors, projectiles |-> projectiles]
  /\ (pc = "warriors" /\ warriors[idx].alive) =>
        /\ Attacked =>
              /\ warriors[idx].cooldown - delta <= 0
              /\ warriors'[idx].cooldown = Config(warriors[idx]).cooldown
        /\ ~Attacked =>
              warriors'[idx].cooldown = Max(0, warriors[idx].cooldown - delta)
        /\ warriors[idx].cooldown - delta > 0 =>
              warriors'[idx].wantRetreat
                 = (IF warriors[idx].wantRetreat > 0
                    THEN Max(0, warriors[idx].wantRetreat - delta)
                    ELSE warriors[idx].wantRetreat)

\* C15: attemptAttack changes nothing when there is no target, the target is
\* dead or the cooldown is positive, for every type.  In a turn an entity
\* attacks only if its cooldown, less dt, has reached 0, and the attack sets the
\* cooldown to the type's; a turn without attack lowers the cooldown by dt, not
\* below 0: the next attack comes no sooner than after dt's that sum up to the
\* type's cooldown.
C15_AttackNeedsCooldown == [][AttackNeedsCooldownStep]_vars

\* C15 witness: the turn of an entity that has a living enemy within reach and a
\* cooldown that this step does not use up.
C15_Witness ==
  /\ pc = "warriors" /\ warriors[idx].alive /\ delta > 0
  /\ warriors[idx].cooldown - delta > 0
  /\ InReach(idx)

\* C16: for every entity of the roster, findTarget returns null exactly when no
\* living entity of another type exists; otherwise it returns such an entity
\* (never the caller, a dead one or one of the caller's type), none is nearer,
\* and of those equally near it is the first in roster order.
C16_NearestLivingEnemy ==
  \A i \in Roster :
     LET t == FindTarget(i, warriors)
     IN /\ t = 0 <=> Enemies(i) = {}
        /\ t # 0 =>
              /\ t \in Enemies(i)
              /\ \A j \in Enemies(i) :
                    /\ Dist2(warriors[i], warriors[t]) <= Dist2(warriors[i], warriors[j])
                    /\ Dist2(warriors[i], warriors[t]) = Dist2(warriors[i], warriors[j])
                          => t <= j

\* C16 witness: the turn of an entity with two living enemies equally near,
\* the first of the two in roster order being its target.
C16_Witness ==
  /\ pc = "warriors"
  /\ \E j, k \in Enemies(idx) :
        /\ j < k
        /\ Dist2(warriors[idx], warriors[j]) = Dist2(warriors[idx], warriors[k])
        /\ FindTarget(idx, warriors) = j

\* The entities of another type than projectile q's owner within
\* size + radius of q; with living = TRUE the living ones only.
WithinReachOf(q, living) ==
  {n \in Roster :
     /\ living => warriors[n].alive
     /\ warriors[n].type # q.ownerType
     /\ Hypot2(warriors[n].x - q.x, warriors[n].y - q.y)
           <= (Config(warriors[n]).size + ProjectileRadius)
                * (Config(warriors[n]).size + ProjectileRadius)}

\* The entities that lose hp in the turn about to run.
Damaged == {n \in Roster : warriors'[n].hp < warriors[n].hp}

\* The step property of C17.
OneHitPerProjectileStep ==
  /\ pc = "projectiles" =>
        /\ projectiles[idx].alive
        /\ Cardinality(Damaged) <= 1
        /\ \A n \in Damaged :
              /\ n \in WithinReachOf(projectiles'[idx], TRUE)
              /\ \A j \in WithinReachOf(projectiles'[idx], TRUE) : n <= j
              /\ warriors'[n].hp = warriors[n].hp - projectiles[idx].damage
              /\ ~projectiles'[idx].alive
        /\ (projectiles'[idx].life < MaxLife
              /\ WithinReachOf(projectiles'[idx], TRUE) # {}) => Damaged # {}
  /\ pc = "finish" =>
        /\ projectiles' = SelectSeq(projectiles, LAMBDA p : p.alive)
        /\ \A k \in 1..Len(projectiles') : projectiles'[k].alive

\* C17: a projectile's update damages at most one entity: the first living
\* enemy, in roster order, within size + radius of the projectile after its
\* move, by the projectile's damage; the projectile is dead from then on, is
\* removed at the end of the step, and only living projectiles are ever updated.
C17_OneHitPerProjectile == [][OneHitPerProjectileStep]_vars

\* C17 witness: a projectile has hit an entity while two enemies were within
\* its reach, and lies dead in the list.
C17_Witness ==
  /\ hit.by = "projectiles"
  /\ \E k \in Shots :
        /\ ~projectiles[k].alive
        /\ hit.who \in WithinReachOf(projectiles[k], FALSE)
        /\ Cardinality(WithinReachOf(projectiles[k], FALSE)) >= 2

\* The step property of C18.
ExpiredDealsNoDamageStep ==
  (/\ pc = "projectiles"
   /\ \/ projectiles'[idx].life >= MaxLife
      \/ FromCenter2(projectiles'[idx]) >= ARENA_RADIUS * ARENA_RADIUS) =>
     Damaged = {}

\* C18 as claimed: a projectile whose update ends at or past maxLife, or at or
\* beyond the arena circle after its move, lowers no entity's hp in that update.
C18_ExpiredDealsNoDamage == [][ExpiredDealsNoDamageStep]_vars

\* The step property of C19.
RangedIgnoresCooldownStep ==
  (/\ pc = "warriors"
   /\ warriors[idx].alive /\ warriors[idx].type = "triangle"
   /\ FindTarget(idx, warriors) # 0
   /\ Dist2(warriors'[idx], warriors[FindTarget(idx, warriors)])
         <= TYPE_CONFIG.triangle.range * TYPE_CONFIG.triangle.range) =>
     /\ Len(projectiles') = Len(projectiles) + 1
     /\ projectiles'[Len(projectiles')].ownerType = "triangle"
     /\ warriors'[idx].cooldown = TYPE_CONFIG.triangle.cooldown

\* C19 as claimed: in every turn of a living triangle that ends with its target
\* within range, a projectile of the triangle is appended and its cooldown is
\* set to the type's, whatever the cooldown was.
C19_RangedIgnoresCooldown == [][RangedIgnoresCooldownStep]_vars

\* The step property of C20.
OneUpdatePerStepStep ==
  /\ pc = "warriors" =>
        /\ Len(projectiles') \in {Len(projectiles), Len(projectiles) + 1}
        /\ SubSeq(projectiles', 1, Len(projectiles)) = projectiles
        /\ Len(projectiles') > Len(projectiles) =>
              /\ projectiles'[Len(projectiles')].life = 0
              /\ projectiles'[Len(projectiles')].alive
  /\ pc = "projectiles" =>
        /\ Len(projectiles') = Len(projectiles)
        /\ \A k \in Shots : k # idx => projectiles'[k] = projectiles[k]
        /\ projectiles'[idx].life = projectiles[idx].life + delta
        /\ \/ pc' = "projectiles" /\ idx' = idx + 1
           \/ pc' = "finish" /\ idx = Len(projectiles)
  /\ (pc = "idle" /\ pc' = "projectiles") => idx' = 1
  /\ (pc = "warriors" /\ pc' = "projectiles") => idx' = 1
  /\ (pc = "finish" /\ frames = 1) =>
        \A k \in Shots : projectiles[k].life = delta

\* C20: the entities' turns only append projectiles, new ones with age 0, and
\* update none; the projectiles' turns go through the list once, in order, each
\* turn updating the one projectile of its index and advancing its age by dt; so
\* every projectile, also one created in this step, is updated once in the
\* step: at the end of the first step every projectile's age is exactly dt.
C20_OneUpdatePerStep == [][OneUpdatePerStepStep]_vars

\* C20 witness: the first step, with dt > 0, is at its end and a projectile
\* fired in it has been updated once.
C20_Witness ==
  /\ pc = "finish" /\ frames = 1 /\ delta > 0
  /\ \E k \in Shots : projectiles[k].life = delta

\* The retreat timer of warrior self after the decay of lines 193-195.
DecayedRetreat(self, dt) ==
  IF self.wantRetreat > 0 THEN Max(0, self.wantRetreat - dt) ELSE self.wantRetreat

\* The blend the retreat is specified with: 60% directly away from the target,
\* 40% along the perpendicular of the recorded hit direction.
AwayFromTargetDir(self, target) ==
  Unit(-UnitVec(target.x - self.x, target.y - self.y)[1] * 6 - self.lastHitDirY * 4,
       -UnitVec(target.x - self.x, target.y - self.y)[2] * 6 + self.lastHitDirX * 4)

\* Where self stands after a move of dt along dir (lines 331-335).
MovedAlong(self, dir, dt) ==
  ClampInsideArena(
    [self EXCEPT !.x = @ + RDiv(dir[1] * Config(self).speed * dt, Scale * 100),
                 !.y = @ + RDiv(dir[2] * Config(self).speed * dt, Scale * 100)])

\* The step property of C21.
RetreatAfterHitStep ==
  (pc = "warriors" /\ warriors[idx].alive /\ warriors[idx].type = "circle") =>
     /\ \A n \in Damaged :
           warriors'[idx].wantRetreat = (IF warriors[n].type = "square" THEN 80 ELSE 40)
     /\ Damaged = {} =>
           warriors'[idx].wantRetreat = DecayedRetreat(warriors[idx], delta)
     /\ (DecayedRetreat(warriors[idx], delta) > 0 /\ FindTarget(idx, warriors) # 0) =>
           /\ warriors'[idx].x =
                 MovedAlong(warriors[idx],
                            AwayFromTargetDir(warriors[idx],
                                              warriors[FindTarget(idx, warriors)]),
                            delta).x
           /\ warriors'[idx].y =
                 MovedAlong(warriors[idx],
                            AwayFromTargetDir(warriors[idx],
                                              warriors[FindTarget(idx, warriors)]),
                            delta).y

\* C21 as claimed: a circle's hit sets its retreat timer to 0.8 s on a square
\* and 0.4 s on any other target; a turn without hit lowers the timer by dt, not
\* below 0; and in every turn in which the lowered timer is positive and there
\* is a target the circle moves by speed * dt along 60% directly away from the
\* target plus 40% the perpendicular of the recorded hit direction.
C21_RetreatAfterHit == [][RetreatAfterHitStep]_vars

\* Units of type t in the roster ws.
CountOf(t, ws) == Cardinality({n \in 1..Len(ws) : ws[n].type = t})

\* The types of the roster follow the order of TYPE_CONFIG's keys.
InTypeOrder(ws) ==
  \A m, n \in 1..Len(ws) :
     m < n => \E a, b \in 1..3 : a <= b /\ ws[m].type = Types[a] /\ ws[n].type = Types[b]

\* The battle has just been started by SeedFinish.
Seeded == seed.phase = "off" /\ status = "running" /\ running

SeedCappedStep ==
  (seed.phase = "loop" /\ seed.attempts = MaxAttempts) =>
     /\ Len(warriors') = Len(warriors) + 1
     /\ warriors'[Len(warriors')].x = seed.point[1]
     /\ warriors'[Len(warriors')].y = seed.point[2]

SeededRoster ==
  Seeded =>
     /\ \A t \in TypeSet : CountOf(t, warriors) = Max(0, seed.form[t] * seed.multiplier)
     /\ InTypeOrder(warriors)
     /\ animationFrameId \in pendingFrames

\* C22: spawn placement terminates and never blocks the start of the battle: no
\* unit has more than 100 candidate points drawn, the unit is placed at the
\* 100th candidate whatever lies near it, the loops of seedWarriors always come
\* to their end with the battle running, and the roster then holds
\* max(0, count) units of each type, a count of zero or less placing none.
C22_SpawnPlacementTerminates ==
  /\ [](seed.attempts <= MaxAttempts)
  /\ [][SeedCappedStep]_vars
  /\ [](SeededRoster)
  /\ (seed.phase = "loop") ~> Seeded

\* A battle started with two units closer than minSpacing, one archetype with
\* a negative count and none of its units in the roster.
C22_Witness ==
  /\ Seeded
  /\ \E t \in TypeSet : seed.form[t] < 0 /\ CountOf(t, warriors) = 0
  /\ \E m, n \in 1..Len(warriors) :
        /\ m < n
        /\ Hypot2(warriors[m].x - warriors[n].x, warriors[m].y - warriors[n].y)
             < MinSpacing * MinSpacing


\* The largest gap between performance.now() and the timestamp of a frame.
MaxLag == CHOOSE l \in LagValues : \A k \in LagValues : k <= l

PausedIsFrozenStep ==
  /\ (status = "paused" /\ status' # "setup") =>
        /\ UNCHANGED <<warriors, projectiles, winnerType>>
        /\ pc' = "idle"
  /\ (status = "paused" /\ status' = "running") =>
        /\ elapsed' <= 0 /\ elapsed' >= -MaxLag
        /\ running' /\ animationFrameId' \in pendingFrames'
  /\ (pc = "idle" /\ pc' # "idle") => delta' = elapsed

\* C23: while a battle is paused no step executes: from the pause to the
\* resume (or a reset) the roster with every unit's fields, the projectile
\* list and the outcome do not change, whatever frames are pending; the resume
\* restarts the clock, and a step's dt is the time on that clock, so the first
\* step after a resume never covers the paused interval.
C23_PausedIsFrozen == [][PausedIsFrozenStep]_vars

\* The first step after a resume: the clock was restarted 2 ms ahead of the
\* frame's timestamp, and the step of a later frame than the first runs with
\* the time since then.
C23_Witness ==
  /\ pc = "warriors"
  /\ frames > 1
  /\ status = "running"
  /\ delta \in {d - MaxLag : d \in TickValues}

====
